---- MODULE Spec2Model ----
(***************************************************************************)
(* MilvusDatabase (src/memory_manager/vector_db/milvus.py): a client that  *)
(* keeps a connection alias and a cache of collection handles in front of  *)
(* a remote vector engine.  The client's fields and the engine's state are *)
(* the variables; every method of the class is one action.  A method is    *)
(* translated as a function from the world before the call to the world    *)
(* after it; a raised exception is the field exc, which every later call   *)
(* of the same method passes through until a try/except boundary clears it.*)
(***************************************************************************)
EXTENDS Integers, Sequences, FiniteSets, TLC

VARIABLES
    connected,      \* connections.has_connection(self.connection_alias)
    collections,    \* keys of self.collections, the handle cache
    exists,         \* names of the collections the engine holds
    schemaOf,       \* engine: name -> sequence of field schemas (<<>> if absent)
    indexOf,        \* engine: name -> set of [field, params] indexes
    loaded,         \* engine: names whose data is loaded
    rows,           \* engine: name -> set of stored rows
    last,           \* the last completed call: what it was given, did and returned
    callers         \* the calls in progress when several callers share the client

vars ==
    <<connected, collections, exists, schemaOf, indexOf, loaded, rows, last,
      callers>>

----------------------------------------------------------------------------
(* Bounds of the model. *)

\* the largest primary key a caller uses
MaxKey == 2
\* the longest batch a caller hands to insert
MaxBatch == 2
\* insert is called while the engine holds fewer rows than this
MaxRows == 1
\* the largest clock reading of time.time()
MaxTime == 1
\* the largest limit / top_k a caller asks for
MaxLimit == 1

Names == {"a", "b"}
\* the callers that share one client
Callers == {"t1", "t2"}
Keys == 1..MaxKey
Times == 1..MaxTime
\* the create_time values a caller supplies itself (before every clock reading)
CallerTimes == {0}

NoExc == "none"

----------------------------------------------------------------------------
(* Inputs: abstract schemas (dicts with a "fields" list) and records. *)

FId == [name |-> "id", dtype |-> "INT64", is_primary |-> TRUE]
FText(n) == [name |-> "text", dtype |-> "VARCHAR", max_length |-> n]
FVec(d) == [name |-> "embedding", dtype |-> "FLOAT_VECTOR", dim |-> d]
FVecIdx(d) ==
    [name |-> "embedding", dtype |-> "FLOAT_VECTOR", dim |-> d,
     index_params |-> [index_type |-> "HNSW", metric_type |-> "IP", nlist |-> 0]]

SchemaA == [fields |-> <<FId, FText(256), FVec(4)>>]
SchemaB == [fields |-> <<FId, FVecIdx(8)>>]
\* SchemaA with index_params given, but empty
SchemaAEmptyIdx ==
    [fields |-> <<FId, FText(256),
                  [name |-> "embedding", dtype |-> "FLOAT_VECTOR", dim |-> 4,
                   index_params |-> <<>>]>>]
\* malformed definitions
SchemaNoLen == [fields |-> <<FId, [name |-> "text", dtype |-> "VARCHAR"], FVec(4)>>]
SchemaNoDim == [fields |-> <<FId, [name |-> "embedding", dtype |-> "FLOAT_VECTOR"]>>]
SchemaEmpty == [fields |-> <<>>]

CreateSchemas ==
    {SchemaA, SchemaB, SchemaAEmptyIdx, SchemaNoLen, SchemaNoDim, SchemaEmpty}

\* what a caller may expect of a collection: the two above and their neighbours
CheckSchemas ==
    {SchemaA, SchemaB, SchemaNoLen, SchemaEmpty,
     [fields |-> <<FVec(4), FText(256), FId>>],
     [fields |-> <<FId, FText(128), FVec(4)>>],
     [fields |-> <<FId, FText(256), FVec(8)>>],
     [fields |-> <<FId, FVec(4)>>],
     [fields |-> <<FId, FText(256), FVec(4), [name |-> "flag", dtype |-> "BOOL"]>>],
     [fields |-> <<FId, [name |-> "text", dtype |-> "INT64"], FVec(4)>>]}

\* a record with or without its own create_time
Records ==
    [id : Keys] \cup [id : Keys, create_time : CallerTimes]

\* the batches a caller hands to insert: records of distinct keys, by key
Batches ==
    {b \in UNION {[1..n -> Records] : n \in 0..MaxBatch} :
        \A i \in DOMAIN b : \A j \in DOMAIN b : i < j => b[i].id < b[j].id}

OutputFields == {{"id"}, {"id", "create_time"}}

\* a fault plan of the engine for one call of a method: the at-th remote call
\* fails (0: none), and with outage every later one too
FaultPlan(k, o) == [at |-> k, outage |-> o]
NoFault == FaultPlan(0, FALSE)
Fails(plan, i) ==
    /\ plan.at # 0
    /\ IF plan.outage THEN i >= plan.at ELSE i = plan.at

----------------------------------------------------------------------------
(* The world a method runs in: the variables, plus the run of the method. *)

World(plan) ==
    [connected |-> connected, collections |-> collections, exists |-> exists,
     schemaOf |-> schemaOf, indexOf |-> indexOf, loaded |-> loaded, rows |-> rows,
     plan |-> plan,
     calls |-> <<>>,       \* the remote calls issued so far, in order
     exc |-> NoExc,        \* the exception being raised
     failed |-> FALSE,     \* the method's own except clause logged a failure
     caught |-> NoExc,     \* the exception that except clause caught
     val |-> FALSE,        \* the value the last call returned
     ret |-> "None"]       \* the value the method returns

Raise(w, e) == [w EXCEPT !.exc = e]
Issue(w, kind, c) == [w EXCEPT !.calls = Append(@, [call |-> kind, col |-> c])]
\* the same, for a call whose answer the client branches on
IssueSeen(w, kind, c, answer) ==
    [w EXCEPT !.calls = Append(@, [call |-> kind, col |-> c, seen |-> answer]),
              !.val = answer]
\* the call about to be issued does not reach the engine or the engine fails it
Down(w) == ~w.connected \/ Fails(w.plan, Len(w.calls) + 1)
Refused(w, kind, c) == Raise(Issue(w, kind, c), "MilvusException")

----------------------------------------------------------------------------
(* The engine's answers to the calls the client makes (pymilvus).  Every    *)
(* call passes an exception already raised through, is refused without a    *)
(* connection, and fails when the fault plan says so.                       *)

\* connections.connect(alias, host, port)
connections_connect(w) ==
    IF w.exc # NoExc THEN w
    ELSE IF Fails(w.plan, Len(w.calls) + 1)
         THEN Refused(w, "connect", "")
         ELSE [Issue(w, "connect", "") EXCEPT !.connected = TRUE]

\* connections.disconnect(alias)
connections_disconnect(w) ==
    IF w.exc # NoExc THEN w
    ELSE IF Down(w) THEN Refused(w, "disconnect", "")
         ELSE [Issue(w, "disconnect", "") EXCEPT !.connected = FALSE]

\* the names of a set, in the order the engine lists them
NameOrder == <<"a", "b">>
IsListed(S) == [c \in Names |-> c \in S]
SeqOf(S) == SelectSeq(NameOrder, LAMBDA c : IsListed(S)[c])

\* utility.list_collections()
utility_list_collections(w) ==
    IF w.exc # NoExc THEN w
    ELSE IF Down(w) THEN Refused(w, "list_collections", "")
         ELSE [Issue(w, "list_collections", "") EXCEPT !.val = SeqOf(w.exists)]

\* utility.has_collection(name)
utility_has_collection(w, c) ==
    IF w.exc # NoExc THEN w
    ELSE IF Down(w) THEN Refused(w, "has_collection", c)
         ELSE [Issue(w, "has_collection", c) EXCEPT !.val = (c \in w.exists)]

\* utility.load_state(name)
utility_load_state(w, c) ==
    IF w.exc # NoExc THEN w
    ELSE IF Down(w) THEN Refused(w, "load_state", c)
         ELSE IssueSeen(w, "load_state", c,
                        IF c \notin w.exists THEN "NotExist"
                        ELSE IF c \in w.loaded THEN "Loaded" ELSE "NotLoad")

\* utility.drop_collection(name)
utility_drop_collection(w, c) ==
    IF w.exc # NoExc THEN w
    ELSE IF Down(w) \/ c \notin w.exists THEN Refused(w, "drop_collection", c)
         ELSE [Issue(w, "drop_collection", c) EXCEPT
                 !.exists = @ \ {c}, !.loaded = @ \ {c},
                 !.schemaOf[c] = <<>>, !.indexOf[c] = {}, !.rows[c] = {}]

\* Collection(name): a handle on an existing collection
Collection(w, c) ==
    IF w.exc # NoExc THEN w
    ELSE IF Down(w) \/ c \notin w.exists THEN Refused(w, "Collection", c)
         ELSE Issue(w, "Collection", c)

\* Collection(name, schema, using): creates the collection, or hands out the
\* collection of that name when it has this very schema
Collection_create(w, c, fields) ==
    IF w.exc # NoExc THEN w
    ELSE IF Down(w) \/ (c \in w.exists /\ w.schemaOf[c] # fields)
         THEN Refused(w, "create_collection", c)
         ELSE [Issue(w, "create_collection", c) EXCEPT
                 !.exists = @ \cup {c}, !.schemaOf[c] = fields]

\* col.indexes
col_indexes(w, c) ==
    IF w.exc # NoExc THEN w
    ELSE IF Down(w) \/ c \notin w.exists THEN Refused(w, "indexes", c)
         ELSE [Issue(w, "indexes", c) EXCEPT !.val = w.indexOf[c]]

\* col.create_index(field_name, index_params)
col_create_index(w, c, f, params) ==
    IF w.exc # NoExc THEN w
    ELSE IF Down(w) \/ c \notin w.exists THEN Refused(w, "create_index", c)
         ELSE [Issue(w, "create_index", c) EXCEPT
                 !.indexOf[c] = {ix \in @ : ix.field # f}
                                \cup {[field |-> f, params |-> params]}]

\* col.load()
col_load(w, c) ==
    IF w.exc # NoExc THEN w
    ELSE IF Down(w) \/ c \notin w.exists THEN Refused(w, "load", c)
         ELSE [Issue(w, "load", c) EXCEPT !.loaded = @ \cup {c}]

\* col.release()
col_release(w, c) ==
    IF w.exc # NoExc THEN w
    ELSE IF Down(w) \/ c \notin w.exists THEN Refused(w, "release", c)
         ELSE [Issue(w, "release", c) EXCEPT !.loaded = @ \ {c}]

\* col.insert(row)
col_insert(w, c, payload) ==
    IF w.exc # NoExc THEN w
    ELSE IF Down(w) \/ c \notin w.exists THEN Refused(w, "insert", c)
         ELSE [Issue(w, "insert", c) EXCEPT
                 !.rows[c] = @ \cup {payload[i] : i \in DOMAIN payload}]

\* col.flush()
col_flush(w, c) ==
    IF w.exc # NoExc THEN w
    ELSE IF Down(w) \/ c \notin w.exists THEN Refused(w, "flush", c)
         ELSE Issue(w, "flush", c)

\* the rows a filter expression selects: "" selects all, "id == k" the key k
Matching(S, filter) ==
    IF filter = 0 THEN S ELSE {r \in S : r.id = filter}

\* a row projected on the output fields (the primary key is always returned)
Project(r, fields) ==
    [f \in (fields \cup {"id"}) \cap DOMAIN r |-> r[f]]

\* col.query(expr, output_fields): needs the collection loaded
col_query(w, c, filter, fields) ==
    IF w.exc # NoExc THEN w
    ELSE IF Down(w) \/ c \notin w.exists \/ c \notin w.loaded
         THEN Refused(w, "query", c)
         ELSE [Issue(w, "query", c) EXCEPT
                 !.val = {Project(r, fields) : r \in Matching(w.rows[c], filter)}]

\* the n rows of S that come first: latest create_time, then smallest key
RECURSIVE TopRows(_, _)
TopRows(S, n) ==
    IF n = 0 \/ S = {} THEN {}
    ELSE LET r == CHOOSE x \in S : \A y \in S :
                      \/ x.create_time > y.create_time
                      \/ (x.create_time = y.create_time /\ x.id <= y.id)
         IN {r} \cup TopRows(S \ {r}, n - 1)

\* col.query(expr="", output_fields=["*"], sort_by, limit)
col_query_latest(w, c, limit) ==
    IF w.exc # NoExc THEN w
    ELSE IF Down(w) \/ c \notin w.exists \/ c \notin w.loaded
         THEN Refused(w, "query", c)
         ELSE [Issue(w, "query", c) EXCEPT !.val = TopRows(w.rows[c], limit)]

\* col.search(data, anns_field, param, limit, expr): at most limit hits
col_search(w, c, top_k, filter) ==
    IF w.exc # NoExc THEN w
    ELSE IF Down(w) \/ c \notin w.exists \/ c \notin w.loaded
         THEN Refused(w, "search", c)
         ELSE [Issue(w, "search", c) EXCEPT
                 !.val = {[id |-> r.id, distance |-> 0, entity |-> r] :
                            r \in TopRows(Matching(w.rows[c], filter), top_k)}]

\* col.delete(expr)
col_delete(w, c, filter) ==
    IF w.exc # NoExc THEN w
    ELSE IF Down(w) \/ c \notin w.exists THEN Refused(w, "delete", c)
         ELSE [Issue(w, "delete", c) EXCEPT
                 !.rows[c] = @ \ Matching(@, filter)]
----------------------------------------------------------------------------
(* The methods of MilvusDatabase. *)

\* an except clause that logs and raises again, as connect's does
Absorb_reraise(w, dflt) ==
    IF w.exc = NoExc THEN w ELSE [w EXCEPT !.failed = TRUE]

\* an except clause that logs and swallows: the method returns dflt
Absorb(w, dflt) ==
    IF w.exc = NoExc THEN w
    ELSE [w EXCEPT !.exc = NoExc, !.failed = TRUE, !.caught = w.exc, !.ret = dflt]

\* a loop without its own except clause: the failure ends the refresh
Continue_abort(w) == w

\* the except clause inside connect's loop: log, continue with the next name
Continue(w) == [w EXCEPT !.exc = NoExc]

\* list_collections: [] when the engine fails
list_collections(w) ==
    LET r == utility_list_collections(w)
    IN IF r.exc # NoExc THEN [r EXCEPT !.exc = NoExc, !.val = <<>>] ELSE r

\* the body of connect's loop for one listed name
RefreshOne(w, c) ==
    LET h  == utility_has_collection(w, c)
        ix == col_indexes(Collection(h, c), c)
        ld == col_load(ix, c)
    IN IF h.exc # NoExc THEN Continue(h)
       ELSE IF ~h.val THEN h
       ELSE IF ix.exc # NoExc THEN Continue(ix)
       ELSE IF ix.val = {} THEN ix
       ELSE IF ld.exc # NoExc THEN Continue(ld)
       ELSE [ld EXCEPT !.collections = @ \cup {c}]

RECURSIVE RefreshAll(_, _)
RefreshAll(w, names) ==
    IF names = <<>> THEN w
    ELSE RefreshAll(RefreshOne(w, Head(names)), Tail(names))

\* a connect that empties the cache before it has a connection
connect_clear_first(w) ==
    LET w1 == connections_connect([w EXCEPT !.collections = {}])
        w2 == list_collections(w1)
    IN IF w.exc # NoExc THEN w
       ELSE IF w1.exc # NoExc THEN w1
       ELSE RefreshAll(w2, w2.val)

\* connect: raises when the connection cannot be made
connect(w) ==
    LET w1 == connections_connect(w)
        w2 == list_collections(w1)
    IN IF w.exc # NoExc THEN w
       ELSE IF w1.exc # NoExc THEN w1
       ELSE RefreshAll([w2 EXCEPT !.collections = {}], w2.val)

\* close
close(w) ==
    IF w.connected THEN Absorb(connections_disconnect(w), "None") ELSE w

\* __enter__: connect, then hand out the client itself
__enter__(w) ==
    LET w1 == connect(w)
    IN IF w1.exc # NoExc THEN w1 ELSE [w1 EXCEPT !.ret = "self"]

\* __exit__: close
__exit__(w) == close(w)

\* _ensure_connection
_ensure_connection(w) ==
    IF w.exc = NoExc /\ ~w.connected THEN connect(w) ELSE w

\* a lookup that trusts a cached handle to be loaded still
_get_collection_trusting(w, c) ==
    LET h  == utility_has_collection(w, c)
        k  == Collection(h, c)
        w1 == IF h.exc # NoExc THEN h
              ELSE IF ~h.val THEN Raise(h, "ValueError")
              ELSE IF k.exc # NoExc THEN k
              ELSE [k EXCEPT !.collections = @ \cup {c}]
        ls == utility_load_state(w1, c)
    IN IF w.exc # NoExc \/ c \in w.collections THEN w
       ELSE IF ls.exc # NoExc THEN ls
       ELSE IF ls.val # "Loaded" THEN col_load(ls, c)
       ELSE ls

\* _get_collection: the handle of name, cached or looked up, then loaded
_get_collection(w, c) ==
    LET h  == utility_has_collection(w, c)
        k  == Collection(h, c)
        w1 == IF c \in w.collections THEN w
              ELSE IF h.exc # NoExc THEN h
              ELSE IF ~h.val THEN Raise(h, "ValueError")
              ELSE IF k.exc # NoExc THEN k
              ELSE [k EXCEPT !.collections = @ \cup {c}]
        ls == utility_load_state(w1, c)
    IN IF w.exc # NoExc THEN w
       ELSE IF ls.exc # NoExc THEN ls
       ELSE IF ls.val # "Loaded" THEN col_load(ls, c)
       ELSE ls

\* a stamp that overwrites the create_time the caller gave
Stamp_overwrite(item, t) ==
    [f \in DOMAIN item \cup {"create_time"} |->
        IF f = "create_time" THEN t ELSE item[f]]

\* the record insert sends: create_time added when the caller gave none
Stamp(item, t) ==
    IF "create_time" \notin DOMAIN item
    THEN [f \in DOMAIN item \cup {"create_time"} |->
            IF f = "create_time" THEN t ELSE item[f]]
    ELSE item

\* what insert hands to col.insert: data[0]
InsertPayload(data) == <<data[1]>>

\* insert
insert(w, c, data, t) ==
    LET w1 == _get_collection(_ensure_connection(w), c)
        stamped == [i \in DOMAIN data |-> Stamp(data[i], t)]
        w2 == IF w1.exc = NoExc /\ Len(data) = 0
              THEN Raise(w1, "IndexError")
              ELSE col_flush(col_insert(w1, c, InsertPayload(stamped)), c)
    IN Absorb(w2, "None")

\* a lookup that resolves a missing handle against the engine
CachedHandle_lazy(w, c) == _get_collection(w, c)

\* the handle query, search and delete work on: the cached one, or ValueError
CachedHandle(w, c) ==
    IF w.exc = NoExc /\ c \notin w.collections THEN Raise(w, "ValueError") ELSE w

\* query
query(w, c, filter, fields) ==
    LET w1 == col_query(col_load(CachedHandle(_ensure_connection(w), c), c),
                        c, filter, fields)
    IN IF w1.exc # NoExc THEN Absorb(w1, {}) ELSE [w1 EXCEPT !.ret = w1.val]

\* search
search(w, c, top_k, filter) ==
    LET w1 == col_search(col_load(CachedHandle(_ensure_connection(w), c), c),
                         c, top_k, filter)
    IN IF w1.exc # NoExc THEN Absorb(w1, {}) ELSE [w1 EXCEPT !.ret = w1.val]

\* get_latest_memory
get_latest_memory(w, c, limit) ==
    LET w1 == col_query_latest(_get_collection(w, c), c, limit)
    IN IF w1.exc # NoExc THEN Absorb(w1, {}) ELSE [w1 EXCEPT !.ret = w1.val]

\* delete
delete(w, c, filter) ==
    Absorb(col_delete(CachedHandle(w, c), c, filter), "None")

\* a drop that releases the handle only after the engine has dropped
drop_collection_drop_first(w, c) ==
    LET h  == utility_has_collection(w, c)
        d  == utility_drop_collection(h, c)
        r  == IF c \in h.collections THEN col_release(d, c) ELSE d
    IN IF h.exc # NoExc THEN Absorb(h, "None")
       ELSE IF ~h.val THEN h
       ELSE IF r.exc # NoExc THEN Absorb(r, "None")
       ELSE [r EXCEPT !.collections = @ \ {c}]

\* a drop that forgets the cache entry
drop_collection_keep_entry(w, c) ==
    LET h  == utility_has_collection(w, c)
        r  == IF c \in h.collections THEN col_release(h, c) ELSE h
        d  == utility_drop_collection(r, c)
    IN IF h.exc # NoExc THEN Absorb(h, "None")
       ELSE IF ~h.val THEN h
       ELSE IF d.exc # NoExc THEN Absorb(d, "None")
       ELSE d

\* drop_collection
drop_collection(w, c) ==
    LET h  == utility_has_collection(w, c)
        r  == IF c \in h.collections THEN col_release(h, c) ELSE h
        d  == utility_drop_collection(r, c)
    IN IF h.exc # NoExc THEN Absorb(h, "None")
       ELSE IF ~h.val THEN h
       ELSE IF d.exc # NoExc THEN Absorb(d, "None")
       ELSE [d EXCEPT !.collections = @ \ {c}]

\* dict.get(key): <<value>> when the key is there, <<>> (None) when not
Get(d, key) == IF key \in DOMAIN d THEN <<d[key]>> ELSE <<>>

\* the index parameters used when a vector field brings none
DefaultIndexParams ==
    [index_type |-> "IVF_FLAT", metric_type |-> "L2", params |-> [nlist |-> 256]]

\* a field definition the loop of create_collection reads without a KeyError
FieldReadable(fd) ==
    /\ {"name", "dtype"} \subseteq DOMAIN fd
    /\ fd.dtype = "VARCHAR" => "max_length" \in DOMAIN fd
    /\ fd.dtype = "FLOAT_VECTOR" => "dim" \in DOMAIN fd

\* FieldSchema(...): the field as the engine keeps it
FieldSchema(fd) ==
    [name |-> fd.name, dtype |-> fd.dtype,
     is_primary |-> ("is_primary" \in DOMAIN fd /\ fd.dtype # "FLOAT_VECTOR"
                     /\ fd.is_primary),
     params |-> IF fd.dtype = "VARCHAR" THEN [max_length |-> fd.max_length]
                ELSE IF fd.dtype = "FLOAT_VECTOR" THEN [dim |-> fd.dim]
                ELSE <<>>]

\* CollectionSchema(fields): refuses a schema without exactly one primary field
CollectionSchema(w, fields) ==
    IF w.exc # NoExc THEN w
    ELSE IF Cardinality({i \in DOMAIN fields : fields[i].is_primary}) # 1
         THEN Raise(w, "SchemaException")
         ELSE w

\* index parameters that ignore what the caller supplied
IndexParamsFor_default(fd) == DefaultIndexParams

\* the index parameters create_collection uses for a vector field
IndexParamsFor(fd) ==
    IF "index_params" \in DOMAIN fd /\ fd.index_params # <<>>
    THEN fd.index_params
    ELSE DefaultIndexParams

\* the loop that creates one index per FLOAT_VECTOR field, from field i on
RECURSIVE CreateIndexes(_, _, _, _)
CreateIndexes(w, c, defs, i) ==
    IF i > Len(defs) THEN w
    ELSE IF defs[i].dtype = "FLOAT_VECTOR"
         THEN CreateIndexes(col_create_index(w, c, defs[i].name,
                                             IndexParamsFor(defs[i])),
                            c, defs, i + 1)
         ELSE CreateIndexes(w, c, defs, i + 1)

\* a creation that builds the collection from the fields it could read and
\* only then reports the definition it could not
CreateNew_late(w, c, schema) ==
    LET defs == schema.fields
        good == SelectSeq(defs, FieldReadable)
        fields == [i \in DOMAIN good |-> FieldSchema(good[i])]
        k == Collection_create(CollectionSchema(w, fields), c, fields)
    IN IF k.exc # NoExc THEN k
       ELSE IF Len(good) # Len(defs)
            THEN Raise([k EXCEPT !.collections = @ \cup {c}], "KeyError")
       ELSE col_flush(CreateIndexes([k EXCEPT !.collections = @ \cup {c}],
                                    c, defs, 1), c)

\* create_collection, once the name is known to be free
CreateNew(w, c, schema) ==
    LET defs == schema.fields
        bad  == {i \in DOMAIN defs : ~FieldReadable(defs[i])}
        fields == [i \in DOMAIN defs |-> FieldSchema(defs[i])]
        k == Collection_create(CollectionSchema(w, fields), c, fields)
    IN IF bad # {} THEN Raise(w, "KeyError")
       ELSE IF k.exc # NoExc THEN k
       ELSE col_flush(CreateIndexes([k EXCEPT !.collections = @ \cup {c}],
                                    c, defs, 1), c)

\* a creation that does not look whether the name is taken
create_collection_unchecked(w, c, schema) ==
    Absorb(CreateNew(w, c, schema), "None")

\* create_collection
create_collection(w, c, schema) ==
    LET h == utility_has_collection(w, c)
    IN IF h.exc # NoExc THEN Absorb(h, "None")
       ELSE IF h.val THEN h
       ELSE Absorb(CreateNew(h, c, schema), "None")

\* a field comparison that forgets the dimension of a vector field
check_field_nodim(fd, existing_fields) ==
    LET hits == {i \in DOMAIN existing_fields :
                    existing_fields[i].name = fd.name}
        existing_field == existing_fields[CHOOSE i \in hits : TRUE]
    IN IF hits = {} THEN FALSE
       ELSE IF existing_field.dtype # fd.dtype THEN FALSE
       ELSE IF fd.dtype = "VARCHAR"
            THEN Get(fd, "max_length") = Get(existing_field.params, "max_length")
       ELSE TRUE

\* check_field of check_collection_schema_consistency
check_field(fd, existing_fields) ==
    LET hits == {i \in DOMAIN existing_fields :
                    existing_fields[i].name = fd.name}
        existing_field == existing_fields[CHOOSE i \in hits : TRUE]
    IN IF hits = {} THEN FALSE
       ELSE IF existing_field.dtype # fd.dtype THEN FALSE
       ELSE IF fd.dtype = "VARCHAR"
            THEN Get(fd, "max_length") = Get(existing_field.params, "max_length")
       ELSE IF fd.dtype = "FLOAT_VECTOR"
            THEN Get(fd, "dim") = Get(existing_field.params, "dim")
       ELSE TRUE

\* the extra fields of the collection, those the expected schema does not name
ExtraFields(defs, existing_fields) ==
    {existing_fields[i].name : i \in DOMAIN existing_fields}
        \ {defs[i].name : i \in DOMAIN defs}

\* the comparison of check_collection_schema_consistency
SchemaConsistent(defs, existing_fields) ==
    IF existing_fields = <<>> /\ defs # <<>> THEN FALSE
    ELSE IF defs = <<>> THEN FALSE
    ELSE IF \E i \in DOMAIN defs : ~check_field(defs[i], existing_fields)
         THEN FALSE
    ELSE ExtraFields(defs, existing_fields) = {}

\* a check that resolves the handle the way insert does, loading the collection
check_collection_schema_consistency_loading(w, c, expected_schema) ==
    LET g == _get_collection(_ensure_connection(w), c)
    IN IF g.exc = "ValueError" THEN [Absorb(g, FALSE) EXCEPT !.failed = FALSE]
       ELSE IF g.exc # NoExc THEN Absorb(g, FALSE)
       ELSE [g EXCEPT !.ret =
                SchemaConsistent(expected_schema.fields, g.schemaOf[c])]

\* check_collection_schema_consistency
check_collection_schema_consistency(w, c, expected_schema) ==
    LET h == utility_has_collection(_ensure_connection(w), c)
        k == Collection(h, c)
    IN IF h.exc # NoExc THEN Absorb(h, FALSE)
       ELSE IF ~h.val THEN [h EXCEPT !.ret = FALSE]
       ELSE IF k.exc # NoExc THEN Absorb(k, FALSE)
       ELSE [k EXCEPT !.ret =
                SchemaConsistent(expected_schema.fields, k.schemaOf[c])]

----------------------------------------------------------------------------
(* The state machine: one action per method, taken as a whole. *)

\* no call is in progress and none has returned since the caller last looked
Idle ==
    [op |-> "idle", col |-> "", arg |-> <<>>, ret |-> "None",
     exc |-> NoExc, failed |-> FALSE, caught |-> NoExc, calls |-> <<>>,
     fault |-> FALSE, at |-> 0]

\* a caller that has no call in progress
Resting ==
    [op |-> "idle", col |-> "", pc |-> "", todo |-> <<>>, cleared |-> {},
     back |-> "", raced |-> FALSE]

\* one call at a time, each run as a whole: no call is ever in progress
NoCallers ==
    [locked |-> TRUE, run |-> [t \in Callers |-> Resting], dropping |-> {},
     seen |-> {}]

Init ==
    /\ callers = NoCallers
    /\ connected = FALSE
    /\ collections = {}
    /\ exists = {}
    /\ schemaOf = [c \in Names |-> <<>>]
    /\ indexOf = [c \in Names |-> {}]
    /\ loaded = {}
    /\ rows = [c \in Names |-> {}]
    /\ last = Idle

\* the fault plans that differ on a run issuing n calls when nothing fails
Plans(n) == {NoFault} \cup {FaultPlan(k, o) : k \in 1..n, o \in BOOLEAN}

\* the method has run to w: the variables take its world, last its outcome
Done(w, op, c, arg) ==
    /\ connected' = w.connected
    /\ collections' = w.collections
    /\ exists' = w.exists
    /\ schemaOf' = w.schemaOf
    /\ indexOf' = w.indexOf
    /\ loaded' = w.loaded
    /\ rows' = w.rows
    /\ last' = [op |-> op, col |-> c, arg |-> arg, ret |-> w.ret, exc |-> w.exc,
                failed |-> w.failed, caught |-> w.caught, calls |-> w.calls,
                fault |-> w.plan.at # 0, at |-> w.plan.at]
    /\ UNCHANGED callers

TotalRows == Cardinality(UNION {{<<c, r>> : r \in rows[c]} : c \in Names})

Connect ==
    /\ last.op = "idle"
    /\ \E plan \in Plans(Len(connect(World(NoFault)).calls)) :
        Done(connect(World(plan)), "connect", "", <<>>)

Close ==
    /\ last.op = "idle"
    /\ \E plan \in Plans(Len(close(World(NoFault)).calls)) :
        Done(close(World(plan)), "close", "", <<>>)

Enter ==
    /\ last.op = "idle"
    /\ \E plan \in Plans(Len(__enter__(World(NoFault)).calls)) :
        Done(__enter__(World(plan)), "__enter__", "", <<>>)

Exit ==
    /\ last.op = "idle"
    /\ \E plan \in Plans(Len(__exit__(World(NoFault)).calls)) :
        Done(__exit__(World(plan)), "__exit__", "", <<>>)

CreateCollection(c, s) ==
    /\ last.op = "idle"
    /\ \E plan \in Plans(Len(create_collection(World(NoFault), c, s).calls)) :
        Done(create_collection(World(plan), c, s), "create_collection", c, s)

Insert(c, data, t) ==
    /\ last.op = "idle"
    /\ TotalRows < MaxRows
    /\ \E plan \in Plans(Len(insert(World(NoFault), c, data, t).calls)) :
        Done(insert(World(plan), c, data, t), "insert", c,
             [data |-> data, t |-> t])

Query(c, filter, fields) ==
    /\ last.op = "idle"
    /\ \E plan \in Plans(Len(query(World(NoFault), c, filter, fields).calls)) :
        Done(query(World(plan), c, filter, fields), "query", c,
             [filter |-> filter, fields |-> fields])

Search(c, top_k, filter) ==
    /\ last.op = "idle"
    /\ \E plan \in Plans(Len(search(World(NoFault), c, top_k, filter).calls)) :
        Done(search(World(plan), c, top_k, filter), "search", c,
             [top_k |-> top_k, filter |-> filter])

GetLatestMemory(c, limit) ==
    /\ last.op = "idle"
    /\ \E plan \in Plans(Len(get_latest_memory(World(NoFault), c, limit).calls)) :
        Done(get_latest_memory(World(plan), c, limit), "get_latest_memory", c,
             limit)

Delete(c, filter) ==
    /\ last.op = "idle"
    /\ \E plan \in Plans(Len(delete(World(NoFault), c, filter).calls)) :
        Done(delete(World(plan), c, filter), "delete", c, filter)

DropCollection(c) ==
    /\ last.op = "idle"
    /\ \E plan \in Plans(Len(drop_collection(World(NoFault), c).calls)) :
        Done(drop_collection(World(plan), c), "drop_collection", c, <<>>)

CheckSchema(c, s) ==
    /\ last.op = "idle"
    /\ \E plan \in Plans(Len(check_collection_schema_consistency(
                               World(NoFault), c, s).calls)) :
        Done(check_collection_schema_consistency(World(plan), c, s),
             "check_collection_schema_consistency", c, s)

\* the engine changes behind the client's back: another client drops or
\* releases a collection
ExternalDrop(c) ==
    /\ last.op = "idle"
    /\ c \in exists
    /\ exists' = exists \ {c}
    /\ loaded' = loaded \ {c}
    /\ schemaOf' = [schemaOf EXCEPT ![c] = <<>>]
    /\ indexOf' = [indexOf EXCEPT ![c] = {}]
    /\ rows' = [rows EXCEPT ![c] = {}]
    /\ UNCHANGED <<connected, collections, last, callers>>

ExternalRelease(c) ==
    /\ last.op = "idle"
    /\ c \in loaded
    /\ loaded' = loaded \ {c}
    /\ UNCHANGED <<connected, collections, exists, schemaOf, indexOf, rows, last,
                   callers>>

\* the caller takes what the call returned (or raised); the client is idle again
Return ==
    /\ last.op # "idle"
    /\ last' = Idle
    /\ UNCHANGED <<connected, collections, exists, schemaOf, indexOf, loaded, rows,
                   callers>>

Next ==
    \/ Connect
    \/ Close
    \/ Enter
    \/ Exit
    \/ \E c \in Names, s \in CreateSchemas : CreateCollection(c, s)
    \/ \E c \in Names, data \in Batches, t \in Times : Insert(c, data, t)
    \/ \E c \in Names, k \in Keys, fields \in OutputFields : Query(c, k, fields)
    \/ \E c \in Names, n \in 1..MaxLimit, k \in {0} \cup Keys : Search(c, n, k)
    \/ \E c \in Names, n \in 1..MaxLimit : GetLatestMemory(c, n)
    \/ \E c \in Names, k \in Keys : Delete(c, k)
    \/ \E c \in Names : DropCollection(c)
    \/ \E c \in Names, s \in CheckSchemas : CheckSchema(c, s)
    \/ \E c \in Names : ExternalDrop(c)
    \/ \E c \in Names : ExternalRelease(c)
    \/ Return

Spec == Init /\ [][Next]_vars

----------------------------------------------------------------------------
(* The claims. *)

\* the public operations that absorb their failures
PublicOps ==
    {"create_collection", "insert", "query", "search", "get_latest_memory",
     "delete", "drop_collection", "check_collection_schema_consistency"}

\* the create_time a stored record must carry: the caller's, else the stamp
ExpectedTime(item, t) ==
    IF "create_time" \in DOMAIN item THEN item.create_time ELSE t

\* the row the engine must hold for a record handed to insert at time t
ExpectedRow(item, t) ==
    [id |-> item.id, create_time |-> ExpectedTime(item, t)]

\* C1: after insert(name, records) with N >= 1 records returns without a
\* logged failure, every record of the batch is stored in the remote
\* collection, not only the first one.
C1_InsertPersistsAll ==
    (last.op = "insert" /\ ~last.failed /\ Len(last.arg.data) >= 1)
        => \A i \in DOMAIN last.arg.data :
              ExpectedRow(last.arg.data[i], last.arg.t) \in rows[last.col]

\* C2: after drop_collection(C) on a collection C that existed, with the
\* engine answering every call, C is in neither the cache nor the engine and
\* a following _get_collection(C) raises the 'does not exist' ValueError,
\* whatever was called before the drop.
C2_DropRemoves ==
    [][(last.op = "idle" /\ last'.op = "drop_collection" /\ ~last'.fault
            /\ last'.col \in exists)
        => /\ last'.col \notin collections'
           /\ last'.col \notin exists'
           /\ (_get_collection(World(NoFault), last.col).exc)' = "ValueError"]_vars

\* C3: for a connected client and every name C the engine does not hold,
\* _get_collection(C) raises the 'does not exist' ValueError, whether or not
\* the cache still holds an entry for C.
C3_GetMissingIsNotFound ==
    (last.op = "idle" /\ connected)
        => \A c \in Names \ exists :
              _get_collection(World(NoFault), c).exc = "ValueError"

\* C4: create_collection(C, S2) on a name C the engine already holds never
\* raises, issues no create and no create_index call, and leaves the schema
\* and the indexes of C as they were, also when S2 is not the schema of C.
C4_CreateIdempotent ==
    [][(last.op = "idle" /\ last'.op = "create_collection" /\ last'.col \in exists)
        => /\ last'.exc = NoExc
           /\ \A i \in DOMAIN last'.calls :
                 last'.calls[i].call \notin {"create_collection", "create_index"}
           /\ last'.col \in exists'
           /\ schemaOf'[last'.col] = schemaOf[last'.col]
           /\ indexOf'[last'.col] = indexOf[last'.col]]_vars

\* a second create with another schema has run on an existing collection
C4_Witness ==
    /\ last.op = "create_collection"
    /\ last.arg = SchemaB
    /\ ~last.failed
    /\ last.col \in exists
    /\ schemaOf[last.col] = [i \in 1..3 |-> FieldSchema(SchemaA.fields[i])]
    /\ Len(last.calls) = 1

\* what the comparison looks at in an expected field and in an actual one
ExpectedShape(fd) ==
    <<fd.name, fd.dtype,
      IF fd.dtype = "VARCHAR" THEN Get(fd, "max_length")
      ELSE IF fd.dtype = "FLOAT_VECTOR" THEN Get(fd, "dim") ELSE <<>>>>
ActualShape(f) ==
    <<f.name, f.dtype,
      IF f.dtype = "VARCHAR" THEN <<f.params.max_length>>
      ELSE IF f.dtype = "FLOAT_VECTOR" THEN <<f.params.dim>> ELSE <<>>>>

\* C5: when the engine answers, check_collection_schema_consistency(C, S)
\* returns True exactly if C exists and its fields are the fields of S: the
\* same names, the same dtype per name, the same max_length for VARCHAR and
\* the same dim for FLOAT_VECTOR; so False for an extra, a missing or a
\* changed field, for a missing collection and for an empty S.
C5_SchemaCheckExact ==
    (last.op = "check_collection_schema_consistency" /\ ~last.fault)
        => (last.ret <=>
              /\ last.col \in exists
              /\ {ExpectedShape(last.arg.fields[i]) : i \in DOMAIN last.arg.fields}
                   = {ActualShape(schemaOf[last.col][i]) :
                        i \in DOMAIN schemaOf[last.col]})

\* the check has answered True for the fields of the collection in another order
C5_Witness ==
    /\ last.op = "check_collection_schema_consistency"
    /\ ~last.fault
    /\ last.ret
    /\ last.arg = [fields |-> <<FVec(4), FText(256), FId>>]

\* C6: after insert of one record into a collection the engine holds, cached
\* or not, with the engine answering every call, a query on the record's key
\* returns the record, and with create_time among the output fields the
\* record carries the caller's create_time if it had one, else insert's stamp.
C6_InsertThenQuery ==
    (last.op = "insert" /\ ~last.fault /\ last.col \in exists
        /\ Len(last.arg.data) = 1)
        => \A fields \in OutputFields :
              LET q == query(World(NoFault), last.col, last.arg.data[1].id, fields)
              IN \E r \in q.ret :
                    /\ r.id = last.arg.data[1].id
                    /\ "create_time" \in fields
                         => r.create_time
                              = ExpectedTime(last.arg.data[1], last.arg.t)

\* a record without create_time went into a collection that was not cached
C6_Witness ==
    /\ last.op = "insert"
    /\ ~last.fault
    /\ Len(last.arg.data) = 1
    /\ "create_time" \notin DOMAIN last.arg.data[1]
    /\ \E i \in DOMAIN last.calls :
          last.calls[i] = [call |-> "Collection", col |-> last.col]
    /\ \E r \in query(World(NoFault), last.col, last.arg.data[1].id,
                      {"id", "create_time"}).ret :
          r.create_time = last.arg.t

\* C7: a public operation called on a disconnected client, with the engine
\* answering every call, starts by connecting and leaves the client connected.
C7_SelfHealing ==
    [][(last.op = "idle" /\ ~connected /\ last'.op \in PublicOps /\ ~last'.fault)
        => /\ connected'
           /\ last'.calls # <<>>
           /\ last'.calls[1].call = "connect"]_vars

\* what an operation returns when it has absorbed a failure
ReturnsDefault(l) ==
    IF l.op \in {"query", "search", "get_latest_memory"} THEN l.ret = {}
    ELSE IF l.op = "check_collection_schema_consistency" THEN l.ret = FALSE
    ELSE l.ret = "None"

\* C8 as stated: no public operation raises to its caller, and whenever a
\* remote call of it fails, at any step, query, search and get_latest_memory
\* return an empty result, the schema check False and the others nothing.
C8_AnyFailureDefault ==
    [][(last.op = "idle" /\ last'.op \in PublicOps)
        => /\ last'.exc = NoExc
           /\ last'.fault => ReturnsDefault(last')]_vars

\* the failing call of the operation that has run is a call of connect()'s
\* refresh (list_collections, or has_collection / Collection / indexes / load
\* of one listed collection) in an automatic reconnect that went through:
\* the client was disconnected, is connected now, and the calls of that
\* connect(), which are the first calls of the operation, include the failing
\* one after connections.connect
InRefresh ==
    /\ ~connected
    /\ connected'
    /\ \E o \in BOOLEAN :
          LET r == connect(World(FaultPlan(last'.at, o)))
          IN /\ r.exc = NoExc
             /\ Len(r.calls) <= Len(last'.calls)
             /\ r.calls = SubSeq(last'.calls, 1, Len(r.calls))
             /\ last'.at \in 2..Len(r.calls)

\* C8: no public operation raises to its caller; a failure that reaches the
\* operation makes query, search and get_latest_memory return an empty
\* result, the schema check False and the others nothing; and every failing
\* remote call is such a failure, a failed reconnect included, unless it is
\* a call of the refresh of a reconnect that went through, whose failure
\* connect() absorbs itself.
C8_NeverPropagates ==
    [][(last.op = "idle" /\ last'.op \in PublicOps)
        => /\ last'.exc = NoExc
           /\ last'.failed => ReturnsDefault(last')
           /\ (last'.fault /\ ~last'.failed) => InRefresh]_vars

\* a query has absorbed the failure of its reconnect
C8_Witness ==
    /\ last.op = "query"
    /\ last.fault
    /\ last.failed
    /\ ~connected
    /\ last.calls = <<[call |-> "connect", col |-> ""]>>
    /\ last.ret = {}

\* the calls that read or write the rows of a collection
DataCalls == {"insert", "delete", "query", "search"}

\* C9: no insert, delete, query or search call goes to the engine unless,
\* earlier in the same operation, the client saw the collection's load state
\* as Loaded or issued a load for it.
C9_LoadBeforeUse ==
    \A i \in DOMAIN last.calls :
        last.calls[i].call \in DataCalls
            => \E j \in 1..(i - 1) :
                  /\ last.calls[j].col = last.calls[i].col
                  /\ \/ last.calls[j].call = "load"
                     \/ /\ last.calls[j].call = "load_state"
                        /\ last.calls[j].seen = "Loaded"

\* C10: query, search and delete on a connected client with no cached handle
\* for the name issue no remote call, leave the cache as it was, and query
\* and search return an empty result, also when the engine holds the name.
C10_NoLazyHandle ==
    [][(last.op = "idle" /\ connected /\ last'.op \in {"query", "search", "delete"}
            /\ last'.col \notin collections)
        => /\ last'.calls = <<>>
           /\ collections' = collections
           /\ last'.op \in {"query", "search"} => last'.ret = {}]_vars

\* a query found no handle for a collection the engine holds, with a row in it
C10_Witness ==
    /\ last.op = "query"
    /\ connected
    /\ last.calls = <<>>
    /\ last.col \in exists
    /\ last.col \notin collections
    /\ \E r \in rows[last.col] : r.id = last.arg.filter
    /\ last.ret = {}

----------------------------------------------------------------------------
\* a schema in which a VARCHAR field has no max_length or a FLOAT_VECTOR
\* field no dim
LacksRequired(schema) ==
    \E i \in DOMAIN schema.fields :
        \/ schema.fields[i].dtype = "VARCHAR"
             /\ "max_length" \notin DOMAIN schema.fields[i]
        \/ schema.fields[i].dtype = "FLOAT_VECTOR"
             /\ "dim" \notin DOMAIN schema.fields[i]

\* C11 as stated: create_collection with a schema in which a VARCHAR field
\* lacks max_length or a FLOAT_VECTOR field lacks dim raises an error to its
\* caller, and leaves the engine's collections and the cache as they were.
C11_MalformedRaises ==
    [][(last.op = "idle" /\ last'.op = "create_collection"
            /\ LacksRequired(last'.arg) /\ last'.col \notin exists
            /\ connected /\ ~last'.fault)
        => /\ last'.exc # NoExc
           /\ exists' = exists
           /\ collections' = collections]_vars

\* C11, amended: create_collection with such a schema never raises to its
\* caller and returns nothing; for a name the engine does not hold, on a
\* connected client with the engine answering, the missing key is a KeyError
\* that create_collection logs and absorbs; in every case no collection is
\* created, and the engine's collections, their schemas and the cache are as
\* they were.
C11_MalformedAbsorbed ==
    [][(last.op = "idle" /\ last'.op = "create_collection"
            /\ LacksRequired(last'.arg))
        => /\ last'.exc = NoExc
           /\ last'.ret = "None"
           /\ (connected /\ ~last'.fault /\ last'.col \notin exists)
                => (last'.failed /\ last'.caught = "KeyError")
           /\ \A i \in DOMAIN last'.calls :
                 last'.calls[i].call # "create_collection"
           /\ exists' = exists
           /\ schemaOf' = schemaOf
           /\ collections' = collections]_vars

\* a schema whose VARCHAR field has no max_length was rejected for a free name
C11_Witness ==
    /\ last.op = "create_collection"
    /\ last.arg = SchemaNoLen
    /\ connected
    /\ last.col \notin exists
    /\ last.failed
    /\ last.caught = "KeyError"
    /\ last.calls = <<[call |-> "has_collection", col |-> last.col]>>

----------------------------------------------------------------------------
\* the index a new collection must have on a vector field
ExpectedIndex(fd) ==
    [field |-> fd.name,
     params |-> IF "index_params" \in DOMAIN fd /\ DOMAIN fd.index_params # {}
                THEN fd.index_params
                ELSE [index_type |-> "IVF_FLAT", metric_type |-> "L2",
                      params |-> [nlist |-> 256]]]

VectorFields(schema) ==
    {i \in DOMAIN schema.fields : schema.fields[i].dtype = "FLOAT_VECTOR"}

\* C12: when create_collection creates a collection (the name was free and no
\* failure was logged), the collection's indexes are exactly one per
\* FLOAT_VECTOR field of the schema, with the caller's index_params verbatim
\* when they are supplied and non-empty and IVF_FLAT / L2 / nlist=256
\* otherwise, made by one create_index call per such field; no other field
\* gets an index.
C12_IndexPerVectorField ==
    [][(last.op = "idle" /\ last'.op = "create_collection"
            /\ last'.col \notin exists /\ ~last'.failed)
        => /\ last'.col \in exists'
           /\ indexOf'[last'.col]
                = {ExpectedIndex(last'.arg.fields[i]) : i \in VectorFields(last'.arg)}
           /\ Cardinality({i \in DOMAIN last'.calls :
                             last'.calls[i].call = "create_index"})
                = Cardinality(VectorFields(last'.arg))]_vars

\* a collection was just created with the caller's index parameters, next to
\* one that holds the default index
C12_Witness ==
    /\ last.op = "create_collection"
    /\ last.arg = SchemaB
    /\ ~last.failed
    /\ indexOf[last.col]
         = {[field |-> "embedding", params |-> FVecIdx(8).index_params]}
    /\ \E i \in DOMAIN last.calls : last.calls[i].call = "create_index"
    /\ \E c \in Names \ {last.col} :
          indexOf[c] = {[field |-> "embedding",
                         params |-> [index_type |-> "IVF_FLAT", metric_type |-> "L2",
                                     params |-> [nlist |-> 256]]]}

----------------------------------------------------------------------------
\* C13 as stated: in every state, connected or not,
\* check_collection_schema_consistency leaves the cache, the engine's
\* collections and their load states as they were.
C13_CheckIsPure ==
    [][(last.op = "idle" /\ last'.op = "check_collection_schema_consistency")
        => /\ collections' = collections
           /\ exists' = exists
           /\ loaded' = loaded]_vars

\* C13, amended: check_collection_schema_consistency never changes the
\* engine's collections, schemas, indexes or rows; called on a connected
\* client it also leaves the cache, every load state and the connection as
\* they were, whatever the engine answers; called on a disconnected client it
\* reconnects, and with the engine answering every call the cache and the
\* load states are then the ones connect() leaves.
C13_CheckPureWhenConnected ==
    [][(last.op = "idle" /\ last'.op = "check_collection_schema_consistency")
        => /\ exists' = exists
           /\ schemaOf' = schemaOf
           /\ indexOf' = indexOf
           /\ rows' = rows
           /\ connected
                => (collections' = collections /\ loaded' = loaded /\ connected')
           /\ (~connected /\ ~last'.fault)
                => /\ connected'
                   /\ collections' = connect(World(NoFault)).collections
                   /\ loaded' = connect(World(NoFault)).loaded]_vars

\* on a connected client the check has compared the schema of a collection
\* that is neither loaded nor cached, and left it so
C13_Witness ==
    /\ last.op = "check_collection_schema_consistency"
    /\ last.calls # <<>>
    /\ last.calls[1].call = "has_collection"
    /\ last.ret = TRUE
    /\ last.col \notin loaded
    /\ last.col \notin collections

----------------------------------------------------------------------------
\* the fault plans in which the connection itself cannot be made
ConnectFails == {FaultPlan(1, o) : o \in BOOLEAN}

\* C14: whenever the client is idle, a connect() (or an __enter__) whose
\* connection establishment fails raises to its caller, makes no connection
\* (a disconnected client stays disconnected), issues nothing after the
\* failed call and leaves the cache with exactly the entries it had.
C14_ConnectFailureRaised ==
    last.op = "idle"
        => \A plan \in ConnectFails :
              \A w \in {connect(World(plan)), __enter__(World(plan))} :
                 /\ w.exc # NoExc
                 /\ w.connected = connected
                 /\ w.collections = collections
                 /\ Len(w.calls) = 1

\* a connect on a disconnected client with a filled cache has just raised
C14_Witness ==
    /\ last.op \in {"connect", "__enter__"}
    /\ last.exc = "MilvusException"
    /\ last.calls = <<[call |-> "connect", col |-> ""]>>
    /\ ~connected
    /\ collections # {}

----------------------------------------------------------------------------
\* the fault plans of a connect() that gets its connection
ConnectSucceeds ==
    Plans(Len(connect(World(NoFault)).calls)) \ ConnectFails

\* the names connect() is given by list_collections under a fault plan
ListedUnder(plan) == IF Fails(plan, 2) THEN {} ELSE exists

\* C15: whenever the client is idle, a connect() that gets its connection
\* does not raise, and leaves in the cache exactly the collections that were
\* listed, have an index and met no failing call (existence check, handle,
\* indexes, load); these are loaded, no other load state changes, and every
\* listed collection is visited, whichever call of another one failed.
C15_RefreshExact ==
    last.op = "idle"
        => \A plan \in ConnectSucceeds :
              LET w == connect(World(plan))
                  hit(c) == \E i \in DOMAIN w.calls :
                                w.calls[i].col = c /\ Fails(plan, i)
                  eligible == {c \in ListedUnder(plan) :
                                  indexOf[c] # {} /\ ~hit(c)}
              IN /\ w.exc = NoExc
                 /\ w.connected
                 /\ w.collections = eligible
                 /\ w.loaded = loaded \cup eligible
                 /\ \A c \in ListedUnder(plan) :
                       \E i \in DOMAIN w.calls :
                          w.calls[i] = [call |-> "has_collection", col |-> c]

\* a connect has skipped the first collection, whose load failed, and has
\* loaded and cached the second
C15_Witness ==
    /\ last.op = "connect"
    /\ last.fault
    /\ last.exc = NoExc
    /\ exists = {"a", "b"}
    /\ indexOf["a"] # {}
    /\ \E i \in DOMAIN last.calls : last.calls[i] = [call |-> "load", col |-> "a"]
    /\ collections = {"b"}
    /\ "b" \in loaded
    /\ "a" \notin loaded

----------------------------------------------------------------------------
\* the fault plans of a _get_collection(c) in the current state
GetPlans(c) == Plans(Len(_get_collection(World(NoFault), c).calls))

\* C16: whenever the client is idle, a _get_collection(c) that returns a
\* handle (does not raise), under any fault plan and with the handle cached
\* or not, leaves c existing, cached and loaded in the engine; it has asked
\* the engine for the load state, has issued a load if c was not loaded, and
\* has not reconnected.
C16_ReturnedHandleLoaded ==
    last.op = "idle"
        => \A c \in Names : \A plan \in GetPlans(c) :
              LET w == _get_collection(World(plan), c)
              IN w.exc = NoExc
                    => /\ c \in w.exists
                       /\ c \in w.loaded
                       /\ c \in w.collections
                       /\ \E i \in DOMAIN w.calls :
                             w.calls[i].call = "load_state" /\ w.calls[i].col = c
                       /\ c \notin loaded
                            => \E i \in DOMAIN w.calls :
                                  w.calls[i] = [call |-> "load", col |-> c]
                       /\ \A i \in DOMAIN w.calls : w.calls[i].call # "connect"

\* get_latest_memory found its cached collection not loaded, loaded it and
\* queried it, without a reconnect
C16_Witness ==
    /\ last.op = "get_latest_memory"
    /\ ~last.failed
    /\ Len(last.calls) = 3
    /\ last.calls[1]
         = [call |-> "load_state", col |-> last.col, seen |-> "NotLoad"]
    /\ last.calls[2] = [call |-> "load", col |-> last.col]
    /\ last.calls[3].call = "query"
    /\ last.col \in loaded

----------------------------------------------------------------------------
\* the operations of connection teardown
Teardown == {"close", "__exit__"}

\* C17: a cache entry is removed only by drop_collection of its name or by
\* connection teardown, which clears the whole cache: after a close() that
\* met no failure the cache is empty, drop_collection removes at most the
\* entry of its name, and every other operation keeps every entry.
C17_EntriesRemovedOnlyByDropOrClose ==
    [][(last.op = "idle" /\ last'.op # "idle")
        => /\ (last'.op \in Teardown /\ ~last'.fault) => collections' = {}
           /\ last'.op = "drop_collection"
                => collections \ collections' \subseteq {last'.col}
           /\ last'.op \notin Teardown \cup {"drop_collection"}
                => collections \subseteq collections']_vars

----------------------------------------------------------------------------
\* the fault plans of a drop_collection(c) in the current state
DropPlans(c) == Plans(Len(drop_collection(World(NoFault), c).calls))

\* the i-th call of a run under plan did not get through
CallFailed(plan, i) == ~connected \/ Fails(plan, i)

\* C18: whenever the client is idle, in a drop_collection(c) under any fault
\* plan: for a cached c the remote drop is issued only right after a release
\* of c that succeeded, so a failed release means no drop and no cache
\* change; the cache entry goes only once the drop has succeeded; with every
\* call answered the calls are existence check, release, drop, and c leaves
\* the engine and the cache; and when the engine does not hold c, nothing is
\* released, dropped or removed from the cache.
C18_ReleaseDropRemove ==
    last.op = "idle"
        => \A c \in Names : \A plan \in DropPlans(c) :
              LET w == drop_collection(World(plan), c)
                  at(kind) == {i \in DOMAIN w.calls :
                                  w.calls[i] = [call |-> kind, col |-> c]}
              IN /\ (c \in collections)
                      => \A i \in at("drop_collection") :
                            /\ i - 1 \in at("release")
                            /\ ~CallFailed(plan, i - 1)
                 /\ (\E j \in at("release") : CallFailed(plan, j))
                      => /\ at("drop_collection") = {}
                         /\ w.collections = collections
                         /\ w.exists = exists
                 /\ w.collections # collections
                      => /\ w.collections = collections \ {c}
                         /\ c \notin w.exists
                         /\ \E i \in at("drop_collection") : ~CallFailed(plan, i)
                 /\ (c \in exists /\ c \in collections /\ connected
                        /\ plan = NoFault)
                      => /\ w.calls = <<[call |-> "has_collection", col |-> c],
                                        [call |-> "release", col |-> c],
                                        [call |-> "drop_collection", col |-> c]>>
                         /\ c \notin w.exists
                         /\ c \notin w.collections
                 /\ c \notin exists
                      => /\ at("release") = {}
                         /\ at("drop_collection") = {}
                         /\ w.collections = collections
                         /\ w.exists = exists
                         /\ w.loaded = loaded

\* the release of a cached, loaded collection failed: the drop stopped there
C18_Witness ==
    /\ last.op = "drop_collection"
    /\ last.fault
    /\ last.failed
    /\ connected
    /\ last.calls = <<[call |-> "has_collection", col |-> last.col],
                      [call |-> "release", col |-> last.col]>>
    /\ last.col \in exists
    /\ last.col \in collections
    /\ last.col \in loaded

----------------------------------------------------------------------------
(* Several callers on one client.  A call is no longer one step: every      *)
(* access to the cache and every remote call is a step of its own, and the  *)
(* steps of two calls interleave, unless the callers keep to one call at a  *)
(* time (callers.locked).  The engine answers every call it is reached by.  *)

\* the calls the callers make
SharedOps == {"query", "search", "delete", "drop_collection", "connect"}

\* where a call starts
FirstPc(op) ==
    CASE op = "query" -> "q_ensure"
      [] op = "search" -> "s_ensure"
      [] op = "delete" -> "d_get"
      [] op = "drop_collection" -> "dr_has"
      [] op = "connect" -> "c_connect"

\* the steps of connect's loop, after the cache was cleared
LoopPcs == {"c_has", "c_col", "c_idx", "c_load", "c_cache"}
\* the steps in which query, search and delete use the handle they hold
UsePcs == {"q_load", "q_query", "s_load", "s_search", "d_delete"}

Run(t) == callers.run[t]
Range(seq) == {seq[i] : i \in DOMAIN seq}

\* the kinds of interference a caller can suffer, read off the callers' state:
\* a handle in use that a drop_collection has released or dropped, and a name
\* found missing while a connect() had cleared it and not yet cached it again
RaceDropIn(cs) ==
    \E t \in Callers : cs.run[t].pc \in UsePcs /\ cs.run[t].col \in cs.dropping
RaceClearIn(cs) ==
    \E t \in Callers : cs.run[t].pc = "x_raise" /\ cs.run[t].raced
Observe(cs) ==
    [cs EXCEPT !.seen = @ \cup (IF RaceDropIn(cs) THEN {"drop"} ELSE {})
                          \cup (IF RaceClearIn(cs) THEN {"clear"} ELSE {})]

\* the engine and the client's fields after a step that led to the world w
Engine(w) ==
    /\ connected' = w.connected
    /\ collections' = w.collections
    /\ exists' = w.exists
    /\ schemaOf' = w.schemaOf
    /\ indexOf' = w.indexOf
    /\ loaded' = w.loaded
    /\ rows' = w.rows
    /\ UNCHANGED last

\* caller t goes on as r
Becomes(t, r) == callers' = Observe([callers EXCEPT !.run[t] = r])
Goes(t, pc) == Becomes(t, [Run(t) EXCEPT !.pc = pc])
\* the call of t is over: it returns, or its except clause has logged
Returns(t) == Becomes(t, Resting)

\* the external discipline: one call active at a time
MayBegin(t) ==
    callers.locked => \A u \in Callers : Run(u).op = "idle"

Begin(t, op, c) ==
    /\ Run(t).op = "idle"
    /\ MayBegin(t)
    /\ Becomes(t, [Resting EXCEPT !.op = op, !.col = c, !.pc = FirstPc(op)])
    /\ Engine(World(NoFault))

\* _ensure_connection at the head of query and search
Ensure(t) ==
    /\ Run(t).pc \in {"q_ensure", "s_ensure"}
    /\ LET next == IF Run(t).pc = "q_ensure" THEN "q_get" ELSE "s_get"
       IN IF connected THEN Goes(t, next)
          ELSE Becomes(t, [Run(t) EXCEPT !.pc = "c_connect", !.back = next])
    /\ Engine(World(NoFault))

\* self.collections.get(name) of query, search and delete
CacheGet(t) ==
    /\ Run(t).pc \in {"q_get", "s_get", "d_get"}
    /\ LET next == CASE Run(t).pc = "q_get" -> "q_load"
                     [] Run(t).pc = "s_get" -> "s_load"
                     [] Run(t).pc = "d_get" -> "d_delete"
           cleared == \E u \in Callers \ {t} :
                         /\ Run(u).pc \in LoopPcs
                         /\ Run(t).col \in Run(u).cleared
                         /\ Run(t).col \in Range(Run(u).todo)
       IN IF Run(t).col \in collections THEN Goes(t, next)
          ELSE Becomes(t, [Run(t) EXCEPT !.pc = "x_raise", !.raced = cleared])
    /\ Engine(World(NoFault))

\* raise ValueError: the except clause logs it and the call returns
RaiseMissing(t) ==
    /\ Run(t).pc = "x_raise"
    /\ Returns(t)
    /\ Engine(World(NoFault))

\* collection.load() of query and search
UseLoad(t) ==
    /\ Run(t).pc \in {"q_load", "s_load"}
    /\ LET w == col_load(World(NoFault), Run(t).col)
       IN /\ Engine(w)
          /\ IF w.exc # NoExc THEN Returns(t)
             ELSE Goes(t, IF Run(t).pc = "q_load" THEN "q_query" ELSE "s_search")

\* collection.query / search / delete on the handle
UseData(t) ==
    /\ Run(t).pc \in {"q_query", "s_search", "d_delete"}
    /\ LET w == CASE Run(t).pc = "q_query" ->
                        col_query(World(NoFault), Run(t).col, 0, {"id"})
                  [] Run(t).pc = "s_search" ->
                        col_search(World(NoFault), Run(t).col, 1, 0)
                  [] Run(t).pc = "d_delete" ->
                        col_delete(World(NoFault), Run(t).col, 0)
       IN Engine(w)
    /\ Returns(t)

\* drop_collection: utility.has_collection(name)
DropHas(t) ==
    /\ Run(t).pc = "dr_has"
    /\ LET w == utility_has_collection(World(NoFault), Run(t).col)
       IN /\ Engine(w)
          /\ IF w.exc # NoExc \/ ~w.val THEN Returns(t) ELSE Goes(t, "dr_in")

\* drop_collection: if collection_name in self.collections (before release)
DropIn(t) ==
    /\ Run(t).pc = "dr_in"
    /\ Goes(t, IF Run(t).col \in collections THEN "dr_sub" ELSE "dr_drop")
    /\ Engine(World(NoFault))

\* drop_collection: the subscript self.collections[name] of line 401 reads the
\* cache again: an entry gone since the test above is a KeyError, which the
\* except clause logs (the call returns with nothing released or dropped);
\* otherwise the caller holds the handle
DropSubscript(t) ==
    /\ Run(t).pc = "dr_sub"
    /\ IF Run(t).col \in collections THEN Goes(t, "dr_release") ELSE Returns(t)
    /\ Engine(World(NoFault))

\* drop_collection: .release() on the handle read by the subscript, a remote
\* call that other callers' steps may precede
DropRelease(t) ==
    /\ Run(t).pc = "dr_release"
    /\ LET w == col_release(World(NoFault), Run(t).col)
       IN /\ Engine(w)
          /\ IF w.exc # NoExc THEN Returns(t)
             ELSE callers' = Observe([callers EXCEPT
                                !.run[t].pc = "dr_drop",
                                !.dropping = @ \cup {Run(t).col}])

\* drop_collection: utility.drop_collection(name)
DropDrop(t) ==
    /\ Run(t).pc = "dr_drop"
    /\ LET w == utility_drop_collection(World(NoFault), Run(t).col)
       IN /\ Engine(w)
          /\ IF w.exc # NoExc THEN Returns(t)
             ELSE callers' = Observe([callers EXCEPT
                                !.run[t].pc = "dr_in2",
                                !.dropping = @ \cup {Run(t).col}])

\* drop_collection: if collection_name in self.collections (before del)
DropIn2(t) ==
    /\ Run(t).pc = "dr_in2"
    /\ IF Run(t).col \in collections THEN Goes(t, "dr_del") ELSE Returns(t)
    /\ Engine(World(NoFault))

\* a removal that leaves the entry in the cache
CacheRemove_keep(cache, c) == cache

\* del self.collections[name]
CacheRemove(cache, c) == cache \ {c}

\* drop_collection: del self.collections[name] (a KeyError is logged)
DropDel(t) ==
    /\ Run(t).pc = "dr_del"
    /\ Engine([World(NoFault) EXCEPT
                 !.collections = CacheRemove(@, Run(t).col)])
    /\ Returns(t)

\* what connect's loop does once it is through with a name
LoopHead(r) ==
    IF r.todo # <<>> THEN [r EXCEPT !.pc = "c_has"]
    ELSE IF r.back = "" THEN Resting
    ELSE [Resting EXCEPT !.op = r.op, !.col = r.col, !.pc = r.back]
NextName(r) == LoopHead([r EXCEPT !.todo = Tail(@)])

\* connect: connections.connect(...)
ConnConnect(t) ==
    /\ Run(t).pc = "c_connect"
    /\ LET w == connections_connect(World(NoFault))
       IN /\ Engine(w)
          /\ Goes(t, "c_list")

\* connect: existing_collections = self.list_collections()
ConnList(t) ==
    /\ Run(t).pc = "c_list"
    /\ LET w == list_collections(World(NoFault))
       IN /\ Engine(w)
          /\ Becomes(t, [Run(t) EXCEPT !.pc = "c_clear", !.todo = w.val])

\* connect: self.collections.clear()
ConnClear(t) ==
    /\ Run(t).pc = "c_clear"
    /\ Engine([World(NoFault) EXCEPT !.collections = {}])
    /\ Becomes(t, LoopHead([Run(t) EXCEPT !.cleared = collections]))

\* connect's loop: utility.has_collection(col_name)
ConnHas(t) ==
    /\ Run(t).pc = "c_has"
    /\ LET w == utility_has_collection(World(NoFault), Head(Run(t).todo))
       IN /\ Engine(w)
          /\ IF w.exc # NoExc \/ ~w.val THEN Becomes(t, NextName(Run(t)))
             ELSE Goes(t, "c_col")

\* connect's loop: col = Collection(col_name)
ConnCol(t) ==
    /\ Run(t).pc = "c_col"
    /\ LET w == Collection(World(NoFault), Head(Run(t).todo))
       IN /\ Engine(w)
          /\ IF w.exc # NoExc THEN Becomes(t, NextName(Run(t)))
             ELSE Goes(t, "c_idx")

\* connect's loop: if not col.indexes
ConnIdx(t) ==
    /\ Run(t).pc = "c_idx"
    /\ LET w == col_indexes(World(NoFault), Head(Run(t).todo))
       IN /\ Engine(w)
          /\ IF w.exc # NoExc \/ w.val = {} THEN Becomes(t, NextName(Run(t)))
             ELSE Goes(t, "c_load")

\* connect's loop: col.load()
ConnLoad(t) ==
    /\ Run(t).pc = "c_load"
    /\ LET w == col_load(World(NoFault), Head(Run(t).todo))
       IN /\ Engine(w)
          /\ IF w.exc # NoExc THEN Becomes(t, NextName(Run(t)))
             ELSE Goes(t, "c_cache")

\* connect's loop: self.collections[col_name] = col
ConnCache(t) ==
    /\ Run(t).pc = "c_cache"
    /\ Engine([World(NoFault) EXCEPT
                 !.collections = @ \cup {Head(Run(t).todo)}])
    /\ Becomes(t, NextName(Run(t)))

\* a connected client in front of two collections with the same schema; the
\* first is indexed, loaded and cached, the second too unless its index is
\* missing; the callers keep to one call at a time, or do not
InitThreads ==
    /\ connected = TRUE
    /\ exists = Names
    /\ schemaOf = [c \in Names |->
                     [i \in DOMAIN SchemaA.fields |-> FieldSchema(SchemaA.fields[i])]]
    /\ \E ixb \in {{}, {[field |-> "embedding", params |-> DefaultIndexParams]}} :
          /\ indexOf = [c \in Names |->
                          IF c = "a"
                          THEN {[field |-> "embedding", params |-> DefaultIndexParams]}
                          ELSE ixb]
          /\ loaded = {c \in Names : c = "a" \/ ixb # {}}
          /\ collections = {c \in Names : c = "a" \/ ixb # {}}
    /\ rows = [c \in Names |-> {}]
    /\ last = Idle
    /\ \E locked \in BOOLEAN : callers = [NoCallers EXCEPT !.locked = locked]

NextThreads ==
    \E t \in Callers :
        \/ \E op \in SharedOps \ {"connect"} : \E c \in Names : Begin(t, op, c)
        \/ Begin(t, "connect", "")
        \/ Ensure(t)
        \/ CacheGet(t)
        \/ RaiseMissing(t)
        \/ UseLoad(t)
        \/ UseData(t)
        \/ DropHas(t)
        \/ DropIn(t)
        \/ DropSubscript(t)
        \/ DropRelease(t)
        \/ DropDrop(t)
        \/ DropIn2(t)
        \/ DropDel(t)
        \/ ConnConnect(t)
        \/ ConnList(t)
        \/ ConnClear(t)
        \/ ConnHas(t)
        \/ ConnCol(t)
        \/ ConnIdx(t)
        \/ ConnLoad(t)
        \/ ConnCache(t)

SpecThreads == InitThreads /\ [][NextThreads]_vars

\* C19: when the callers keep to one call at a time, no query, search or
\* delete ever holds a handle that a drop_collection has released or dropped,
\* and none finds a name missing that a connect() in progress has cleared
\* from the cache and not yet cached again (without the discipline both
\* are reachable).
C19_SerializedNoRace ==
    callers.locked => (~RaceDropIn(callers) /\ ~RaceClearIn(callers))

\* without the discipline, both kinds of interference have happened
C19_Witness ==
    /\ ~callers.locked
    /\ callers.seen = {"drop", "clear"}

----------------------------------------------------------------------------
(* The client alone in front of the engine: nothing is dropped or released *)
(* behind its back, and its calls run one at a time.                        *)

NextClosed ==
    \/ Connect
    \/ Close
    \/ Enter
    \/ Exit
    \/ \E c \in Names, s \in CreateSchemas : CreateCollection(c, s)
    \/ \E c \in Names, data \in Batches, t \in Times : Insert(c, data, t)
    \/ \E c \in Names, k \in Keys, fields \in OutputFields : Query(c, k, fields)
    \/ \E c \in Names, n \in 1..MaxLimit, k \in {0} \cup Keys : Search(c, n, k)
    \/ \E c \in Names, n \in 1..MaxLimit : GetLatestMemory(c, n)
    \/ \E c \in Names, k \in Keys : Delete(c, k)
    \/ \E c \in Names : DropCollection(c)
    \/ \E c \in Names, s \in CheckSchemas : CheckSchema(c, s)
    \/ Return

SpecClosed == Init /\ [][NextClosed]_vars

\* C20: when only this client changes the engine and its calls run one at a
\* time, then after every completed operation, whatever remote calls failed
\* in it or before it, every name in the cache is the name of a collection
\* the engine holds.
C20_CacheNamesExist ==
    collections \subseteq exists

\* a drop_collection whose remote drop failed has left the collection in the
\* engine and its handle in the cache, next to another cached collection
C20_Witness ==
    /\ last.op = "drop_collection"
    /\ last.fault
    /\ last.failed
    /\ \E i \in DOMAIN last.calls :
          last.calls[i] = [call |-> "drop_collection", col |-> last.col]
    /\ last.col \in exists
    /\ collections = Names
====
